---------------------------- MODULE Spec2Model ----------------------------
(***************************************************************************)
(* Model of the client of air_message_web: the TCP transport               *)
(* (electron-renderer/connection/dataProxy.ts) with its address parsing,   *)
(* connection lifecycle (start / stop / socket events), outbound framing   *)
(* and encryption chain (send / writeSync) and inbound read pipeline (the  *)
(* "readable" handler); the callers of the Connection Manager              *)
(* (ConnectionConfigDialog.tsx, Messaging.tsx); and the Protocol Manager's *)
(* pending requests and chunked upload.                                    *)
(*                                                                         *)
(* Strings are sequences of one-character strings; byte buffers are        *)
(* sequences of numbers in 0..255. An optional value (undefined, null, NaN *)
(* on the TypeScript side) is <<>> when absent and <<v>> when present.     *)
(*                                                                         *)
(* Every handler runs to its next suspension point in one step: the code   *)
(* is single-threaded and suspends only at an await or between events.     *)
(* The specifications share the definitions: Spec (the lifecycle, from     *)
(* construction), SpecAddr (parseAddress), SpecSend and SpecRead (the two  *)
(* directions of an open connection), SpecReadClose (a connection that     *)
(* ends while it receives), SpecLen (the length field of a header),        *)
(* SpecApp (the Connection Manager and who calls connect()), SpecDialog    *)
(* (the ways the configuration dialog ends), SpecUI (the connection        *)
(* listener of the Messaging component), SpecMsg (its conversation list)   *)
(* and SpecProto (the Protocol Manager).                                   *)
(* The Connection Manager and the Protocol Manager follow the design       *)
(* document; their callers and the transport follow the source.            *)
(***************************************************************************)
EXTENDS Integers, Sequences, FiniteSets, Bags, TLC

VARIABLES
    address,        \* the string handed to parseAddress
    parsed,         \* <<>> before the call, <<AddressData>> after it
    override,       \* DataProxyTCP.override: <<>> or <<[primary, fallback]>>
    store,          \* secure storage: key -> <<>> (undefined) or <<string>>
    isStopping,     \* DataProxyTCP.isStopping
    sock,           \* state of DataProxyTCP.socket
    startPc,        \* where the running start() call is suspended
    startPrimary,   \* start()'s local addressPrimary while it awaits the fallback
    handlers,       \* the listener sets registered by start(), in order
    log,            \* history: owner calls, socket calls and events, notifications
    sendCalls,      \* history: the send(data, encrypt) calls, in call order
    previousEncrypt,\* DataProxyTCP.previousEncrypt: "undefined" or the promise's state
    outHead,        \* <<>> or the send whose encryptData call is in flight
    outChain,       \* sends whose then-callback has not run yet, in chain order
    written,        \* the bytes handed to socket.write, in order
    writtenIds,     \* history: index in sendCalls of each frame written
    wire,           \* history: the frames the peer has sent
    inFlight,       \* bytes the peer has sent that have not reached the socket
    rbuf,           \* the socket's buffered, unread bytes
    messageData,    \* start()'s local messageData: <<>> or <<[size, isEncrypted]>>
    previousDecrypt,\* DataProxyTCP.previousDecrypt: "undefined" or the promise's state
    inHead,         \* <<>> or the frame whose decryptData call is in flight
    inChain,        \* frames whose then-callback has not run yet, in chain order
    delivered       \* history: the notifyMessage calls

addrVars == <<address, parsed>>
connVars == <<override, store, isStopping, sock, startPc, startPrimary, handlers, log>>
sendVars == <<sendCalls, previousEncrypt, outHead, outChain, written, writtenIds>>
readVars == <<wire, inFlight, rbuf, messageData, previousDecrypt, inHead, inChain,
              delivered>>

VARIABLES
    connState,      \* Connection Manager: "disconnected", "connecting", "connected"
    proxies,        \* every DataProxyTCP constructed so far, in order
    dataProxy,      \* Connection Manager: index in proxies of its transport
    disableAutomaticReconnections, \* Connection Manager: the suppression flag
    reconnectScheduled, \* Connection Manager: a scheduled connect() is pending
    messagingMounted,   \* the Messaging component is mounted
    dialogState,    \* ConnectionConfigDialog.connectionState, or "unmounted"
    submits,        \* submitForm calls whose Promise.all has not settled
    appLog          \* history: connect() calls, closes and flag changes

appVars == <<connState, proxies, dataProxy, disableAutomaticReconnections,
             reconnectScheduled, messagingMounted, dialogState, submits, appLog>>

VARIABLES
    conversations,  \* Messaging.state.conversations
    conversationsAvailable, \* Messaging.state.conversationsAvailable
    detailPane,     \* Messaging.state.detailPane: [type, arg]
    sidebarBanner,  \* Messaging.state.sidebarBanner: <<>> for undefined
    fetches,        \* fetchConversations promises of onOpen that are pending
    lastClose       \* history: <<reason>> of an onClose with no callback since

uiVars == <<conversations, conversationsAvailable, detailPane, sidebarBanner,
            fetches, lastClose>>

VARIABLES
    frameLength,    \* <<>> or <<[hi, lo]>>: a frame length as two 16-bit halves
    lenPc           \* "idle", or where the frame with that length stands

lenVars == <<frameLength, lenPc>>

VARIABLES
    reqs,           \* every correlated request issued, by requestID
    table,          \* Protocol Manager: the requestIDs in the pending table
    inbound,        \* requestIDs whose response the relay has sent
    responded,      \* history: requestIDs the relay has answered
    dropped,        \* history: requestIDs whose response found no entry
    chunksSent      \* history: the uploadFilePacket calls

reqVars == <<reqs, table, inbound, responded, dropped, chunksSent>>

VARIABLES
    infoFetches,    \* bag of the pending fetchConversationInfo(guids) promises
    pendingConversationPreviews  \* Messaging.pendingConversationPreviews

msgVars == <<infoFetches, pendingConversationPreviews>>
otherVars == <<lenVars, reqVars, msgVars>>
clientVars == <<appVars, uiVars, otherVars>>
vars == <<addrVars, connVars, sendVars, readVars, clientVars>>

(***************************************************************************)
(* parseAddress                                                            *)
(***************************************************************************)

\* Longest host prefix that is enumerated character by character.
MaxHostLen == 2

Digits == {"0", "1", "2", "3", "4", "5", "6", "7", "8", "9"}

DigitVal(c) ==
    CASE c = "0" -> 0 [] c = "1" -> 1 [] c = "2" -> 2 [] c = "3" -> 3
      [] c = "4" -> 4 [] c = "5" -> 5 [] c = "6" -> 6 [] c = "7" -> 7
      [] c = "8" -> 8 [] c = "9" -> 9

AllDigits(s) == \A i \in 1..Len(s) : s[i] \in Digits

In(c, lo, hi) == c \in Digits /\ DigitVal(c) >= lo /\ DigitVal(c) <= hi

\* The alternation of regexPort after the ':' and before the '$':
\* [0-9]{1,4}|[1-5][0-9]{4}|6[0-4][0-9]{3}|65[0-4][0-9]{2}|655[0-2][0-9]|6553[0-5]?
PortAlternation(d) ==
    /\ AllDigits(d)
    /\ \/ Len(d) \in 1..4
       \/ Len(d) = 5 /\ In(d[1], 1, 5)
       \/ Len(d) = 5 /\ d[1] = "6" /\ In(d[2], 0, 4)
       \/ Len(d) = 5 /\ d[1] = "6" /\ d[2] = "5" /\ In(d[3], 0, 4)
       \/ Len(d) = 5 /\ d[1] = "6" /\ d[2] = "5" /\ d[3] = "5" /\ In(d[4], 0, 2)
       \/ Len(d) \in 4..5 /\ d[1] = "6" /\ d[2] = "5" /\ d[3] = "5" /\ d[4] = "3"
            /\ (Len(d) = 5 => In(d[5], 0, 5))

\* regexPort.test(address): some ':' is followed by the alternation up to the end.
regexPortTest(s) ==
    \E i \in 1..Len(s) : s[i] = ":" /\ PortAlternation(SubSeq(s, i + 1, Len(s)))

\* Index of the first ':' of s, or Len(s) + 1 when there is none.
RECURSIVE FirstColon(_, _)
FirstColon(s, i) ==
    IF i > Len(s) THEN i
    ELSE IF s[i] = ":" THEN i
    ELSE FirstColon(s, i + 1)

\* address.split(":"): the segments between the colons, in order.
RECURSIVE split(_)
split(s) ==
    LET c == FirstColon(s, 1)
    IN  IF c > Len(s) THEN <<s>>
        ELSE <<SubSeq(s, 1, c - 1)>> \o split(SubSeq(s, c + 1, Len(s)))

\* Not-a-number: parseInt returns <<>> for it and <<n>> for the number n.
NaN == <<>>

\* Number of leading decimal digits of s.
RECURSIVE LeadingDigits(_, _)
LeadingDigits(s, i) ==
    IF i > Len(s) \/ s[i] \notin Digits THEN i - 1
    ELSE LeadingDigits(s, i + 1)

RECURSIVE DigitsValue(_)
DigitsValue(d) ==
    IF Len(d) = 0 THEN 0
    ELSE 10 * DigitsValue(SubSeq(d, 1, Len(d) - 1)) + DigitVal(d[Len(d)])

\* parseInt(s) on strings without whitespace, sign or radix prefix: the value
\* of the leading digits, NaN when s does not start with a digit.
parseInt(s) ==
    LET n == LeadingDigits(s, 1)
    IN  IF n = 0 THEN NaN ELSE <<DigitsValue(SubSeq(s, 1, n))>>

DefaultPort == 1359

parseAddress(s) ==
    IF regexPortTest(s)
    THEN LET parts == split(s)
         IN  [host |-> parts[1], port |-> parseInt(parts[2])]
    ELSE [host |-> s, port |-> <<DefaultPort>>]


\* The address strings parseAddress is applied to: a host part, then nothing,
\* a lone ':' or a ':' and a port text.
HostChars == {"h", ":", "7"}

RECURSIVE SeqsUpTo(_, _)
SeqsUpTo(S, n) ==
    IF n = 0 THEN {<<>>}
    ELSE LET shorter == SeqsUpTo(S, n - 1)
         IN  shorter \cup {Append(q, c) : q \in shorter, c \in S}

HostTexts ==
    SeqsUpTo(HostChars, MaxHostLen)
        \cup { <<"1", "0", ".", "0", ".", "0", ".", "5">>,
               <<"[", ":", ":", "1", "]">>,
               <<"h", ":", "7", "0", "0", "0", "0">> }

PortTexts ==
    { <<"0">>, <<"8", "0">>, <<"2", "0", "0", "0">>, <<"9", "9", "9", "9">>,
      <<"0", "1", "2", "3", "4">>, <<"1", "0", "0", "0", "0">>,
      <<"5", "9", "9", "9", "9">>, <<"6", "0", "0", "0", "0">>,
      <<"6", "4", "9", "9", "9">>, <<"6", "5", "0", "0", "0">>,
      <<"6", "5", "4", "9", "9">>, <<"6", "5", "5", "0", "0">>,
      <<"6", "5", "5", "2", "9">>, <<"6", "5", "5", "3", "0">>,
      <<"6", "5", "5", "3", "5">>, <<"6", "5", "5", "3", "6">>,
      <<"6", "5", "5", "4", "0">>, <<"6", "5", "6", "0", "0">>,
      <<"6", "6", "0", "0", "0">>, <<"7", "0", "0", "0", "0">>,
      <<"9", "9", "9", "9", "9">>, <<"1", "0", "0", "0", "0", "0">> }

AddressInputs ==
    HostTexts
        \cup {h \o <<":">> : h \in HostTexts}
        \cup {h \o <<":">> \o p : h \in HostTexts, p \in PortTexts}

AddrQuiet == address = <<>> /\ parsed = <<>>

\* A caller applies parseAddress to its string.
ParseAddress ==
    /\ parsed = <<>>
    /\ parsed' = <<parseAddress(address)>>
    /\ UNCHANGED <<clientVars, address, connVars, sendVars, readVars>>


(***************************************************************************)
(* DataProxyTCP: connection lifecycle                                      *)
(***************************************************************************)

\* Calls of start() and of stop() by the owner in one run.
MaxStarts == 2
MaxStops == 2

AddrPrimary == <<"h", ":", "2", "0", "0", "0">>
AddrFallback == <<"f">>

\* The constructor's argument: none, a primary address, or both addresses.
Overrides ==
    { <<>>,
      <<[primary |-> AddrPrimary, fallback |-> <<>>]>>,
      <<[primary |-> AddrPrimary, fallback |-> <<AddrFallback>>]>> }

\* What getSecureLS returns per key: <<>> for undefined.
Stores ==
    { [ServerAddress |-> <<>>, ServerAddressFallback |-> <<>>],
      [ServerAddress |-> <<AddrPrimary>>, ServerAddressFallback |-> <<>>],
      [ServerAddress |-> <<AddrPrimary>>, ServerAddressFallback |-> <<AddrFallback>>] }

\* One entry of the history: what happened, which code did it ("start", "close"
\* or "" for the owner and the socket), and the argument of the call.
Event(type, from, arg) == [type |-> type, from |-> from, arg |-> arg]

\* ConnectionErrorCode.Connection
ErrConnection == <<"Connection">>

Count(type) == Cardinality({i \in 1..Len(log) : log[i].type = type})

\* State after `new DataProxyTCP(override)`: a fresh, unconnected socket.
ConnQuiet ==
    /\ isStopping = FALSE
    /\ sock = "idle"
    /\ startPc = "idle"
    /\ startPrimary = <<>>
    /\ handlers = <<>>
    /\ log = <<>>

\* socket.connect(port, host), then the three socket.on(...) registrations.
\* The listeners of one start() share its addressSecondary.
ConnectAndRegister(primary, secondary, events) ==
    /\ sock' = "connecting"
    /\ handlers' = Append(handlers, [secondary |-> secondary])
    /\ log' = log \o events \o <<Event("connect", "start", <<primary>>)>>

\* start() up to its first suspension: with an override it runs to the end,
\* without one it waits for getSecureLS(ServerAddress). The flag is assigned
\* true, as the code does. One start() call runs at a time.
Start ==
    /\ startPc = "idle"
    /\ Count("start") < MaxStarts
    /\ isStopping' = TRUE
    /\ IF override # <<>>
       THEN /\ ConnectAndRegister(
                  parseAddress(override[1].primary),
                  IF override[1].fallback # <<>> /\ override[1].fallback[1] # <<>>
                  THEN <<parseAddress(override[1].fallback[1])>>
                  ELSE <<>>,
                  <<Event("start", "", <<>>)>>)
            /\ UNCHANGED <<startPc, startPrimary>>
       ELSE /\ startPc' = "awaitPrimary"
            /\ log' = Append(log, Event("start", "", <<>>))
            /\ UNCHANGED <<sock, handlers, startPrimary>>
    /\ UNCHANGED <<override, store>>
    /\ UNCHANGED <<clientVars, addrVars, sendVars, readVars>>

\* start() without the test for a missing address: the default address is used.
StartPrimaryReadUnchecked ==
    /\ startPc = "awaitPrimary"
    /\ startPrimary' = <<parseAddress(IF store.ServerAddress = <<>> THEN <<>>
                                      ELSE store.ServerAddress[1])>>
    /\ startPc' = "awaitFallback"
    /\ UNCHANGED <<override, store, isStopping, sock, handlers, log>>
    /\ UNCHANGED <<clientVars, addrVars, sendVars, readVars>>

\* getSecureLS(ServerAddress) has answered: no address is a connection
\* failure, reported at once; otherwise start() goes on to the fallback key.
StartPrimaryRead ==
    /\ startPc = "awaitPrimary"
    /\ IF store.ServerAddress = <<>>
       THEN /\ log' = Append(log, Event("notifyClose", "start", ErrConnection))
            /\ startPc' = "idle"
            /\ UNCHANGED startPrimary
       ELSE /\ startPrimary' = <<parseAddress(store.ServerAddress[1])>>
            /\ startPc' = "awaitFallback"
            /\ UNCHANGED log
    /\ UNCHANGED <<override, store, isStopping, sock, handlers>>
    /\ UNCHANGED <<clientVars, addrVars, sendVars, readVars>>

\* getSecureLS(ServerAddressFallback) has answered: connect and register.
StartFallbackRead ==
    /\ startPc = "awaitFallback"
    /\ ConnectAndRegister(
           startPrimary[1],
           IF store.ServerAddressFallback # <<>>
           THEN <<parseAddress(store.ServerAddressFallback[1])>>
           ELSE <<>>,
           <<>>)
    /\ startPc' = "idle"
    /\ startPrimary' = <<>>
    /\ UNCHANGED <<override, store, isStopping>>
    /\ UNCHANGED <<clientVars, addrVars, sendVars, readVars>>

\* stop(): the flag first, then socket.end(() => socket.destroy()). A socket
\* that is already destroyed emits nothing more.
Stop ==
    /\ Count("stop") < MaxStops
    /\ isStopping' = TRUE
    /\ sock' = IF sock = "closed" THEN "closed" ELSE "ending"
    /\ log' = Append(log, Event("stop", "", <<>>))
    /\ UNCHANGED <<override, store, startPc, startPrimary, handlers>>
    /\ UNCHANGED <<clientVars, addrVars, sendVars, readVars>>

\* The socket's "connect" event: every registered listener calls notifyOpen.
SocketConnect ==
    /\ sock = "connecting"
    /\ sock' = "open"
    /\ log' = log \o <<Event("socketConnect", "", <<>>)>>
                  \o [i \in 1..Len(handlers) |-> Event("notifyOpen", "", <<>>)]
    /\ UNCHANGED <<override, store, isStopping, startPc, startPrimary, handlers>>
    /\ UNCHANGED <<clientVars, addrVars, sendVars, readVars>>

\* The close listener's test without the stopping flag.
ShouldFallbackAlways(stopping, secondary) == secondary # <<>>

\* The close listener's test, `!this.isStopping && addressSecondary`: retry on
\* the fallback address?
ShouldFallback(stopping, secondary) == ~stopping /\ secondary # <<>>

\* The close listeners of handlers[i..], run in registration order; st is
\* the socket state and the events produced so far.
RECURSIVE CloseListeners(_, _)
CloseListeners(i, st) ==
    IF i > Len(handlers) THEN st
    ELSE IF ShouldFallback(isStopping, handlers[i].secondary)
         THEN CloseListeners(i + 1,
                [sock |-> "connecting",
                 events |-> Append(st.events,
                     Event("connect", "close", handlers[i].secondary))])
         ELSE CloseListeners(i + 1,
                [sock |-> st.sock,
                 events |-> Append(st.events,
                     Event("notifyClose", "close", ErrConnection))])

\* A close event whose listeners neither report nor reconnect.
SocketCloseUnreported ==
    /\ sock \in {"connecting", "open", "ending"}
    /\ sock' = "closed"
    /\ log' = Append(log, Event("socketClose", "", <<>>))
    /\ UNCHANGED <<override, store, isStopping, startPc, startPrimary, handlers>>
    /\ UNCHANGED <<clientVars, addrVars, sendVars, readVars>>

\* The socket's "close" event: a failed or lost connection, or the end of a
\* stop().
SocketClose ==
    /\ sock \in {"connecting", "open", "ending"}
    /\ LET st == CloseListeners(1,
                    [sock |-> "closed", events |-> <<Event("socketClose", "", <<>>)>>])
       IN  /\ sock' = st.sock
           /\ log' = log \o st.events
    /\ UNCHANGED <<override, store, isStopping, startPc, startPrimary, handlers>>
    /\ UNCHANGED <<clientVars, addrVars, sendVars, readVars>>


(***************************************************************************)
(* Framing and the encryption collaborator                                 *)
(***************************************************************************)

\* Longest payload of a frame, in bytes.
MaxPayload == 2

PayloadBytes == {7}

Payloads == UNION {[1..n -> PayloadBytes] : n \in 0..MaxPayload}

\* encryptData / decryptData (shared/util/encryptionUtils): the ciphertext is
\* a marker byte followed by the transformed plaintext, so that it is longer
\* than the plaintext and differs from it; decryptData rejects anything that
\* is not a ciphertext.
CipherMark == 200

encryptData(p) == <<CipherMark>> \o [i \in 1..Len(p) |-> 255 - p[i]]

IsCiphertext(c) == Len(c) >= 1 /\ c[1] = CipherMark

decryptData(c) == [i \in 1..Len(c) - 1 |-> 255 - c[i + 1]]

\* ByteBuffer.writeInt: the value as a signed 32-bit number in two's
\* complement, big-endian (ByteBuffer's default order). \div rounds down and
\* % is never negative, which gives the two's complement bytes of n < 0.
writeInt(n) ==
    <<(n \div 16777216) % 256, (n \div 65536) % 256, (n \div 256) % 256, n % 256>>

\* writeSync with the size of the whole buffer in the length field.
writeSyncCountingHeader(data, isEncrypted) ==
    writeInt(4 + 1 + Len(data)) \o <<IF isEncrypted THEN 1 ELSE 0>> \o data

\* writeSync(data, isEncrypted): the bytes of the one socket.write it makes.
writeSync(data, isEncrypted) ==
    writeInt(Len(data)) \o <<IF isEncrypted THEN 1 ELSE 0>> \o data

(***************************************************************************)
(* DataProxyTCP.send: the outbound chain                                   *)
(***************************************************************************)

\* Calls of send() in one run.
MaxSends == 3

SendQuiet ==
    /\ sendCalls = <<>>
    /\ previousEncrypt = "undefined"
    /\ outHead = <<>>
    /\ outChain = <<>>
    /\ written = <<>>
    /\ writtenIds = <<>>

\* this.writeSync(...) for the send with index id.
WriteFrame(id, data, isEncrypted) ==
    /\ written' = written \o writeSync(data, isEncrypted)
    /\ writtenIds' = Append(writtenIds, id)

\* The state of the promise at the end of the chain once the running stage
\* has completed.
ChainTail(chain) == IF chain = <<>> THEN "fulfilled" ELSE "pending"

\* send(data, encrypt) with unencrypted data written at once, chain or not.
SendUnchained(data, encrypt) ==
    LET id == Len(sendCalls) + 1
    IN  /\ Len(sendCalls) < MaxSends
        /\ sendCalls' = Append(sendCalls, [data |-> data, encrypt |-> encrypt])
        /\ IF encrypt
           THEN /\ IF previousEncrypt = "undefined"
                   THEN outHead' = <<[kind |-> "first", id |-> id]>> /\ outChain' = outChain
                   ELSE outChain' = Append(outChain, id) /\ outHead' = outHead
                /\ previousEncrypt' = "pending"
                /\ UNCHANGED <<written, writtenIds>>
           ELSE /\ WriteFrame(id, data, FALSE)
                /\ UNCHANGED <<previousEncrypt, outHead, outChain>>
        /\ UNCHANGED <<clientVars, addrVars, connVars, readVars>>

\* send(data, encrypt), up to its first suspension. With a chain the work is
\* appended as a then-callback (never called when the chain is rejected);
\* without one, unencrypted data is written at once and encrypted data starts
\* encryptData, whose promise becomes the chain.
Send(data, encrypt) ==
    LET id == Len(sendCalls) + 1
    IN  /\ Len(sendCalls) < MaxSends
        /\ sendCalls' = Append(sendCalls, [data |-> data, encrypt |-> encrypt])
        /\ IF previousEncrypt # "undefined"
           THEN /\ IF previousEncrypt = "rejected"
                   THEN UNCHANGED <<previousEncrypt, outChain>>
                   ELSE /\ outChain' = Append(outChain, id)
                        /\ previousEncrypt' = "pending"
                /\ UNCHANGED <<outHead, written, writtenIds>>
           ELSE IF encrypt
                THEN /\ previousEncrypt' = "pending"
                     /\ outHead' = <<[kind |-> "first", id |-> id]>>
                     /\ UNCHANGED <<outChain, written, writtenIds>>
                ELSE /\ WriteFrame(id, data, FALSE)
                     /\ UNCHANGED <<previousEncrypt, outHead, outChain>>
        /\ UNCHANGED <<clientVars, addrVars, connVars, readVars>>

SendCall == \E data \in Payloads, encrypt \in BOOLEAN : Send(data, encrypt)

\* The then-callback at the head of the chain runs: it writes unencrypted
\* data at once and starts encryptData for encrypted data.
RunEncryptCallback ==
    /\ outHead = <<>>
    /\ outChain # <<>>
    /\ previousEncrypt # "rejected"
    /\ LET id == Head(outChain)
           call == sendCalls[id]
       IN  IF call.encrypt
           THEN /\ outHead' = <<[kind |-> "chained", id |-> id]>>
                /\ outChain' = Tail(outChain)
                /\ UNCHANGED <<previousEncrypt, written, writtenIds>>
           ELSE /\ WriteFrame(id, call.data, FALSE)
                /\ outChain' = Tail(outChain)
                /\ previousEncrypt' = ChainTail(Tail(outChain))
                /\ UNCHANGED outHead
    /\ UNCHANGED <<sendCalls, clientVars, addrVars, connVars, readVars>>

\* The encryptData call in flight fulfils: the awaiting code writes the frame.
EncryptFulfils ==
    /\ outHead # <<>>
    /\ LET id == outHead[1].id
       IN  WriteFrame(id, encryptData(sendCalls[id].data), TRUE)
    /\ outHead' = <<>>
    /\ previousEncrypt' = ChainTail(outChain)
    /\ UNCHANGED <<sendCalls, outChain, clientVars, addrVars, connVars, readVars>>

\* The encryptData call in flight rejects: the await throws, the promise of
\* the chain rejects and no later then-callback is called.
EncryptRejects ==
    /\ outHead # <<>>
    /\ outHead' = <<>>
    /\ previousEncrypt' = "rejected"
    /\ UNCHANGED <<sendCalls, outChain, written, writtenIds>>
    /\ UNCHANGED <<clientVars, addrVars, connVars, readVars>>


(***************************************************************************)
(* DataProxyTCP.start: the "readable" listener and the inbound chain       *)
(***************************************************************************)

\* Frames the peer sends in one run.
MaxFrames == 2

ReadQuiet ==
    /\ wire = <<>>
    /\ inFlight = <<>>
    /\ rbuf = <<>>
    /\ messageData = <<>>
    /\ previousDecrypt = "undefined"
    /\ inHead = <<>>
    /\ inChain = <<>>
    /\ delivered = <<>>

\* socket.read(n) on an open stream: <<>> for null, <<bytes>> otherwise.
\* read(0) is always null, a size below zero counts as 0, and a size the
\* buffer does not hold yet gives null and consumes nothing.
socketRead(buf, n) ==
    IF n <= 0 \/ n > Len(buf) THEN <<>> ELSE <<SubSeq(buf, 1, n)>>

Rest(buf, n) == SubSeq(buf, n + 1, Len(buf))

\* Buffer.readInt32BE(0): the four bytes as a signed 32-bit number.
readInt32BE(b) ==
    (IF b[1] >= 128 THEN b[1] - 256 ELSE b[1]) * 16777216
        + b[2] * 65536 + b[3] * 256 + b[4]

Frame(encrypted, payload) == [encrypted |-> encrypted, payload |-> payload]

\* The while(true) loop of the readable listener, run until it breaks or
\* suspends in `await (this.previousDecrypt = decryptData(data))`. st holds
\* the variables the loop reads and writes. A listener that suspends has not
\* reached `messageData = undefined` yet.
RECURSIVE ReadLoop(_)
ReadLoop(st) ==
    IF st.md = <<>>
    THEN LET data == socketRead(st.buf, 4 + 1)
         IN  IF data = <<>> THEN st
             ELSE ReadLoop([st EXCEPT
                    !.buf = Rest(st.buf, 4 + 1),
                    !.md = <<[size |-> readInt32BE(data[1]),
                              isEncrypted |-> data[1][5] # 0]>>])
    ELSE LET data == socketRead(st.buf, st.md[1].size)
         IN  IF data = <<>> THEN st
             ELSE IF st.prev # "undefined"
             THEN ReadLoop([st EXCEPT
                    !.buf = Rest(st.buf, st.md[1].size),
                    !.chain = IF st.prev = "rejected" THEN @
                              ELSE Append(@, [isEncrypted |-> st.md[1].isEncrypted,
                                              data |-> data[1]]),
                    !.prev = IF st.prev = "rejected" THEN "rejected" ELSE "pending",
                    !.md = <<>>])
             ELSE IF st.md[1].isEncrypted
             THEN [st EXCEPT
                    !.buf = Rest(st.buf, st.md[1].size),
                    !.prev = "pending",
                    !.head = <<[kind |-> "first", data |-> data[1]]>>]
             ELSE ReadLoop([st EXCEPT
                    !.buf = Rest(st.buf, st.md[1].size),
                    !.delivered = Append(@, Frame(FALSE, data[1])),
                    !.md = <<>>])

LoopState(buf, md, prev, head, chain, dlv) ==
    [buf |-> buf, md |-> md, prev |-> prev, head |-> head, chain |-> chain,
     delivered |-> dlv]

StoreLoopState(st) ==
    /\ rbuf' = st.buf
    /\ messageData' = st.md
    /\ previousDecrypt' = st.prev
    /\ inHead' = st.head
    /\ inChain' = st.chain
    /\ delivered' = st.delivered

\* The peer writes one frame: its bytes are on their way. After stop() the
\* socket is only half closed by socket.end() and still receives, until it is
\* destroyed.
PeerSends(payload, encrypted) ==
    /\ sock \in {"open", "ending"}
    /\ Len(wire) < MaxFrames
    /\ wire' = Append(wire, Frame(encrypted, payload))
    /\ inFlight' = inFlight \o
                   writeSync(IF encrypted THEN encryptData(payload) ELSE payload,
                             encrypted)
    /\ UNCHANGED <<rbuf, messageData, previousDecrypt, inHead, inChain, delivered>>
    /\ UNCHANGED <<clientVars, addrVars, connVars, sendVars>>

PeerSend == \E payload \in Payloads, encrypted \in BOOLEAN : PeerSends(payload, encrypted)

\* n more bytes reach the socket and it emits "readable": the listener runs,
\* also while an earlier call of it is suspended in its await. A destroyed
\* socket emits nothing more.
Readable(n) ==
    /\ sock \in {"open", "ending"}
    /\ inFlight' = Rest(inFlight, n)
    /\ StoreLoopState(ReadLoop(LoopState(rbuf \o SubSeq(inFlight, 1, n), messageData,
                                         previousDecrypt, inHead, inChain, delivered)))
    /\ UNCHANGED <<wire, clientVars, addrVars, connVars, sendVars>>

ReadableEvent == \E n \in 1..Len(inFlight) : Readable(n)

\* The then-callback at the head of the inbound chain runs: it delivers an
\* unencrypted frame at once and starts decryptData for an encrypted one.
RunDecryptCallback ==
    /\ inHead = <<>>
    /\ inChain # <<>>
    /\ previousDecrypt # "rejected"
    /\ LET t == Head(inChain)
       IN  IF t.isEncrypted
           THEN /\ inHead' = <<[kind |-> "chained", data |-> t.data]>>
                /\ UNCHANGED <<previousDecrypt, delivered>>
           ELSE /\ delivered' = Append(delivered, Frame(FALSE, t.data))
                /\ previousDecrypt' = ChainTail(Tail(inChain))
                /\ UNCHANGED inHead
    /\ inChain' = Tail(inChain)
    /\ UNCHANGED <<wire, inFlight, rbuf, messageData, clientVars, addrVars, connVars, sendVars>>

\* The decryptData call in flight settles. Fulfilled, the awaiting code calls
\* notifyMessage; the suspended listener then clears messageData and goes on
\* with its loop. Rejected, the await throws and the chain is rejected.
DecryptSettles ==
    /\ inHead # <<>>
    /\ LET h == inHead[1]
       IN  IF ~IsCiphertext(h.data)
           THEN /\ inHead' = <<>>
                /\ previousDecrypt' = "rejected"
                /\ UNCHANGED <<rbuf, messageData, inChain, delivered>>
           ELSE IF h.kind = "first"
           THEN StoreLoopState(ReadLoop(LoopState(rbuf, <<>>, ChainTail(inChain), <<>>,
                    inChain, Append(delivered, Frame(TRUE, decryptData(h.data))))))
           ELSE /\ delivered' = Append(delivered, Frame(TRUE, decryptData(h.data)))
                /\ inHead' = <<>>
                /\ previousDecrypt' = ChainTail(inChain)
                /\ UNCHANGED <<rbuf, messageData, inChain>>
    /\ UNCHANGED <<wire, inFlight, clientVars, addrVars, connVars, sendVars>>


(***************************************************************************)
(* The length field of a frame header                                      *)
(***************************************************************************)

\* A length in [0, 2^32) is the pair of its 16-bit halves, hi * 2^16 + lo.
Lengths ==
    {[hi |-> h, lo |-> l] : h \in {0, 1, 127, 32767, 32768, 65535},
                            l \in {0, 1, 2, 256, 65535}}

LenQuiet == frameLength = <<>> /\ lenPc = "idle"

\* The 32-bit value ByteBuffer.writeInt stores for a length: the number
\* itself, which reads as a negative int32 from 2^31 on.
ToInt32(l) == (IF l.hi >= 32768 THEN l.hi - 65536 ELSE l.hi) * 65536 + l.lo

\* The peer writes the five header bytes of a frame of length frameLength,
\* as writeSync does: writeInt(length), then the flag byte.
PeerSendsHeader ==
    /\ lenPc = "ready"
    /\ lenPc' = "sent"
    /\ \E flag \in {0, 1} :
          inFlight' = inFlight \o writeInt(ToInt32(frameLength[1])) \o <<flag>>
    /\ UNCHANGED <<frameLength, wire, rbuf, messageData, previousDecrypt, inHead,
                   inChain, delivered>>
    /\ UNCHANGED <<appVars, uiVars, reqVars, msgVars, addrVars, connVars, sendVars>>


(***************************************************************************)
(* Connection Manager, ConnectionConfigDialog and Messaging: who connects  *)
(***************************************************************************)

\* submitForm calls, and socket close events, in one run.
MaxSubmits == 2
MaxCloses == 1

\* `new DataProxyTCP(override)`, as the constructor leaves it.
NewProxy(ov) ==
    [override |-> ov, isStopping |-> FALSE, sock |-> "idle", pc |-> "idle",
     primary |-> <<>>, handlers |-> <<>>]

\* Before any component has mounted: the manager is disconnected and holds
\* a transport that reads its addresses from secure storage.
AppQuiet ==
    /\ connState = "disconnected"
    /\ proxies = <<NewProxy(<<>>)>>
    /\ dataProxy = 1
    /\ disableAutomaticReconnections = FALSE
    /\ reconnectScheduled = FALSE
    /\ messagingMounted = FALSE
    /\ dialogState = "unmounted"
    /\ submits = <<>>
    /\ appLog = <<>>


AppCount(type) == Cardinality({i \in 1..Len(appLog) : appLog[i].type = type})

\* What the dialog's listener makes of a callback: setConnectionState, while
\* the listener is registered.
Heard(state) == IF dialogState = "unmounted" THEN dialogState ELSE state

\* socket.connect and the socket.on registrations of one start() call.
ProxyConnect(p, primary, secondary) ==
    [p EXCEPT !.sock = "connecting", !.pc = "idle", !.primary = <<>>,
              !.handlers = Append(@, [secondary |-> secondary])]

\* start() on transport p up to its first suspension.
ProxyStart(p) ==
    LET q == [p EXCEPT !.isStopping = TRUE]
    IN  IF p.override # <<>>
        THEN ProxyConnect(q, parseAddress(p.override[1].primary),
                 IF p.override[1].fallback # <<>>
                 THEN <<parseAddress(p.override[1].fallback[1])>>
                 ELSE <<>>)
        ELSE [q EXCEPT !.pc = "awaitPrimary"]

\* connect() that starts the transport whatever the connection state.
ConnectUnguarded(from) ==
    /\ connState' = "connecting"
    /\ dialogState' = Heard("connecting")
    /\ proxies' = [proxies EXCEPT ![dataProxy] = ProxyStart(@)]
    /\ appLog' = Append(appLog, [type |-> "connect", from |-> from,
                                 state |-> connState, started |-> TRUE])

\* ConnectionManager.connect(): nothing while connecting or connected,
\* otherwise onConnecting to the listeners and start() on the transport.
Connect(from) ==
    IF connState \in {"connecting", "connected"}
    THEN /\ appLog' = Append(appLog, [type |-> "connect", from |-> from,
                                      state |-> connState, started |-> FALSE])
         /\ UNCHANGED <<connState, dialogState, proxies>>
    ELSE /\ connState' = "connecting"
         /\ dialogState' = Heard("connecting")
         /\ proxies' = [proxies EXCEPT ![dataProxy] = ProxyStart(@)]
         /\ appLog' = Append(appLog, [type |-> "connect", from |-> from,
                                      state |-> connState, started |-> TRUE])

\* The manager's reaction to a transport's notifyClose that schedules a
\* reconnection whatever the flag says.
ManagerClosedAlwaysRetrying ==
    /\ connState' = "disconnected"
    /\ dialogState' = Heard("disconnected")
    /\ reconnectScheduled' = TRUE
    /\ appLog' = Append(appLog, [type |-> "closed",
                                 suppressed |-> disableAutomaticReconnections])

\* The manager's reaction to a transport's notifyClose: disconnected, onClose
\* to the listeners, and a new connect() scheduled unless suppressed.
ManagerClosed ==
    /\ connState' = "disconnected"
    /\ dialogState' = Heard("disconnected")
    /\ reconnectScheduled' =
          (reconnectScheduled \/ ~disableAutomaticReconnections)
    /\ appLog' = Append(appLog, [type |-> "closed",
                                 suppressed |-> disableAutomaticReconnections])

\* Messaging.componentDidMount: the listener registrations, then connect().
MessagingMount ==
    /\ ~messagingMounted
    /\ messagingMounted' = TRUE
    /\ Connect("componentDidMount")
    /\ UNCHANGED <<dataProxy, disableAutomaticReconnections, reconnectScheduled,
                   submits>>
    /\ UNCHANGED <<uiVars, otherVars, addrVars, connVars, sendVars, readVars>>

\* The dialog mounts: connectionState starts as disconnected and the effect
\* registers the listener.
DialogMount ==
    /\ dialogState = "unmounted"
    /\ dialogState' = "disconnected"
    /\ UNCHANGED <<connState, proxies, dataProxy, disableAutomaticReconnections,
                   reconnectScheduled, messagingMounted, submits, appLog>>
    /\ UNCHANGED <<uiVars, otherVars, addrVars, connVars, sendVars, readVars>>

\* submitForm with valid input, up to Promise.all: a new transport is
\* installed and automatic reconnection is switched off. The form can be
\* submitted while the dialog shows the disconnected state.
SubmitForm ==
    /\ dialogState = "disconnected"
    /\ AppCount("submit") < MaxSubmits
    /\ \E ov \in Overrides \ {<<>>} :
          /\ proxies' = Append(proxies, NewProxy(ov))
          /\ submits' = Append(submits, ov[1])
    /\ dataProxy' = Len(proxies) + 1
    /\ disableAutomaticReconnections' = TRUE
    /\ appLog' = Append(appLog, [type |-> "submit"])
    /\ UNCHANGED <<connState, reconnectScheduled, messagingMounted, dialogState>>
    /\ UNCHANGED <<uiVars, otherVars, addrVars, connVars, sendVars, readVars>>

\* The Promise.all of one submitForm call fulfils: the addresses are stored
\* and its then-callback calls connect().
StorageWritesDone ==
    /\ \E i \in 1..Len(submits) :
          /\ store' = [ServerAddress |-> <<submits[i].primary>>,
                       ServerAddressFallback |-> submits[i].fallback]
          /\ submits' = SubSeq(submits, 1, i - 1)
                            \o SubSeq(submits, i + 1, Len(submits))
    /\ Connect("submitForm")
    /\ UNCHANGED <<dataProxy, disableAutomaticReconnections, reconnectScheduled,
                   messagingMounted>>
    /\ UNCHANGED <<override, isStopping, sock, startPc, startPrimary, handlers, log>>
    /\ UNCHANGED <<uiVars, otherVars, addrVars, sendVars, readVars>>

\* The Promise.all of one submitForm call rejects, because a write to the
\* secure storage failed: its then-callback never runs and nothing catches
\* the rejection. The writes run side by side, so the address may or may not
\* have been stored.
StorageWriteFails ==
    /\ \E i \in 1..Len(submits) :
          /\ store' \in {store, [store EXCEPT !.ServerAddress = <<submits[i].primary>>]}
          /\ submits' = SubSeq(submits, 1, i - 1)
                            \o SubSeq(submits, i + 1, Len(submits))
    /\ UNCHANGED <<connState, proxies, dataProxy, disableAutomaticReconnections,
                   reconnectScheduled, messagingMounted, dialogState, appLog>>
    /\ UNCHANGED <<override, isStopping, sock, startPc, startPrimary, handlers, log>>
    /\ UNCHANGED <<uiVars, otherVars, addrVars, sendVars, readVars>>

\* The dialog goes away without Done: its owner unmounts it, after the
\* onDismiss it passed to Dialog.onClose or for a reason of its own. The
\* cleanup of the effect removes the connection listener and nothing else.
DialogUnmount ==
    /\ dialogState # "unmounted"
    /\ dialogState' = "unmounted"
    /\ UNCHANGED <<connState, proxies, dataProxy, disableAutomaticReconnections,
                   reconnectScheduled, messagingMounted, submits, appLog>>
    /\ UNCHANGED <<uiVars, otherVars, addrVars, connVars, sendVars, readVars>>

\* finish, the Done button shown while the dialog's state is connected.
Finish ==
    /\ dialogState = "connected"
    /\ disableAutomaticReconnections' = FALSE
    /\ UNCHANGED <<connState, proxies, dataProxy, reconnectScheduled,
                   messagingMounted, dialogState, submits, appLog>>
    /\ UNCHANGED <<uiVars, otherVars, addrVars, connVars, sendVars, readVars>>

\* The scheduled connect() runs.
ReconnectFires ==
    /\ reconnectScheduled
    /\ reconnectScheduled' = FALSE
    /\ Connect("reconnect")
    /\ UNCHANGED <<dataProxy, disableAutomaticReconnections, messagingMounted,
                   submits>>
    /\ UNCHANGED <<uiVars, otherVars, addrVars, connVars, sendVars, readVars>>

\* Transport i: getSecureLS(ServerAddress) has answered. No address is
\* reported to the manager as a close.
ProxyPrimaryRead ==
    \E i \in 1..Len(proxies) :
        /\ proxies[i].pc = "awaitPrimary"
        /\ store.ServerAddress = <<>> => AppCount("closed") < MaxCloses
        /\ IF store.ServerAddress = <<>>
           THEN /\ proxies' = [proxies EXCEPT ![i].pc = "idle"]
                /\ ManagerClosed
           ELSE /\ proxies' = [proxies EXCEPT
                                  ![i].pc = "awaitFallback",
                                  ![i].primary =
                                      <<parseAddress(store.ServerAddress[1])>>]
                /\ UNCHANGED <<connState, dialogState, reconnectScheduled, appLog>>
        /\ UNCHANGED <<dataProxy, disableAutomaticReconnections, messagingMounted,
                       submits>>
        /\ UNCHANGED <<uiVars, otherVars, addrVars, connVars, sendVars, readVars>>

\* Transport i: getSecureLS(ServerAddressFallback) has answered.
ProxyFallbackRead ==
    \E i \in 1..Len(proxies) :
        /\ proxies[i].pc = "awaitFallback"
        /\ proxies' = [proxies EXCEPT ![i] =
               ProxyConnect(@, @.primary[1],
                   IF store.ServerAddressFallback # <<>>
                   THEN <<parseAddress(store.ServerAddressFallback[1])>>
                   ELSE <<>>)]
        /\ UNCHANGED <<connState, dataProxy, disableAutomaticReconnections,
                       reconnectScheduled, messagingMounted, dialogState,
                       submits, appLog>>
        /\ UNCHANGED <<uiVars, otherVars, addrVars, connVars, sendVars, readVars>>

\* Transport i: the socket's "connect" event. notifyOpen makes the manager
\* connected and the listeners hear onOpen.
ProxySocketConnect ==
    \E i \in 1..Len(proxies) :
        /\ proxies[i].sock = "connecting"
        /\ proxies' = [proxies EXCEPT ![i].sock = "open"]
        /\ connState' = "connected"
        /\ dialogState' = Heard("connected")
        /\ UNCHANGED <<dataProxy, disableAutomaticReconnections,
                       reconnectScheduled, messagingMounted, submits, appLog>>
        /\ UNCHANGED <<uiVars, otherVars, addrVars, connVars, sendVars, readVars>>

\* Transport i: the socket's "close" event. Its close listeners either
\* connect to the fallback address or report the close to the manager.
ProxySocketClose ==
    \E i \in 1..Len(proxies) :
        LET p == proxies[i]
            retrying == {h \in 1..Len(p.handlers) :
                           ShouldFallback(p.isStopping, p.handlers[h].secondary)}
        IN  /\ p.sock \in {"connecting", "open"}
            /\ AppCount("closed") < MaxCloses
            /\ proxies' = [proxies EXCEPT ![i].sock =
                              IF retrying = {} THEN "closed" ELSE "connecting"]
            /\ IF retrying = 1..Len(p.handlers)
               THEN UNCHANGED <<connState, dialogState, reconnectScheduled, appLog>>
               ELSE ManagerClosed
            /\ UNCHANGED <<dataProxy, disableAutomaticReconnections,
                           messagingMounted, submits>>
            /\ UNCHANGED <<uiVars, otherVars, addrVars, connVars, sendVars, readVars>>


(***************************************************************************)
(* Messaging: the connection listener and the pane selections              *)
(***************************************************************************)

\* fetchConversations promises pending at one time.
MaxFetches == 2

\* ConnectionErrorCode values a close can carry.
ErrorCodes == {"Connection", "Unauthorized"}

Guids == {"a", "b"}

\* Dates of message items and conversation previews.
Dates == {1, 2}

\* A Conversation: its guid, its unread flag and the date of its preview.
Conv(guid, unread, date) == [guid |-> guid, unreadMessages |-> unread, date |-> date]

\* What fetchConversations can resolve to: the conversations of the server,
\* newest first, none flagged unread.
ConversationLists ==
    { <<>>, <<Conv("a", FALSE, 1)>>, <<Conv("b", FALSE, 2), Conv("a", FALSE, 1)>> }

Pane(type, arg) == [type |-> type, arg |-> arg]

\* Messaging's initial state, lines 125-129.
UiQuiet ==
    /\ conversations = <<>>
    /\ conversationsAvailable = FALSE
    /\ detailPane = Pane("Loading", <<>>)
    /\ sidebarBanner = <<>>
    /\ fetches = 0
    /\ lastClose = <<>>

UiOther == <<proxies, dataProxy, disableAutomaticReconnections, reconnectScheduled,
             messagingMounted, dialogState, submits, appLog>>

\* connectionListener.onConnecting
OnConnecting ==
    /\ connState = "disconnected"
    /\ connState' = "connecting"
    /\ IF ~conversationsAvailable
       THEN /\ detailPane' = Pane("Loading", <<>>)
            /\ UNCHANGED sidebarBanner
       ELSE /\ sidebarBanner' = <<"connecting">>
            /\ UNCHANGED detailPane
    /\ lastClose' = <<>>
    /\ UNCHANGED <<conversations, conversationsAvailable, fetches>>
    /\ UNCHANGED <<UiOther, otherVars, addrVars, connVars, sendVars, readVars>>

\* connectionListener.onOpen: the first time, fetchConversations is issued.
OnOpen ==
    /\ connState = "connecting"
    /\ connState' = "connected"
    /\ IF ~conversationsAvailable
       THEN /\ fetches < MaxFetches
            /\ fetches' = fetches + 1
            /\ UNCHANGED sidebarBanner
       ELSE /\ sidebarBanner' = <<>>
            /\ UNCHANGED fetches
    /\ lastClose' = <<>>
    /\ UNCHANGED <<conversations, conversationsAvailable, detailPane>>
    /\ UNCHANGED <<UiOther, otherVars, addrVars, connVars, sendVars, readVars>>

\* connectionListener.onClose(error)
OnClose ==
    /\ connState \in {"connecting", "connected"}
    /\ connState' = "disconnected"
    /\ \E error \in ErrorCodes :
          /\ IF ~conversationsAvailable
             THEN /\ detailPane' = Pane("Error", <<error>>)
                  /\ UNCHANGED sidebarBanner
             ELSE /\ sidebarBanner' = <<error>>
                  /\ UNCHANGED detailPane
          /\ lastClose' = <<error>>
    /\ UNCHANGED <<conversations, conversationsAvailable, fetches>>
    /\ UNCHANGED <<UiOther, otherVars, addrVars, connVars, sendVars, readVars>>

\* The then-callback of onOpen's fetchConversations call.
FetchConversationsResult ==
    /\ fetches > 0
    /\ fetches' = fetches - 1
    /\ \E data \in ConversationLists :
          IF Len(data) > 0
          THEN /\ conversations' = data
               /\ detailPane' = Pane("Thread", <<data[1].guid>>)
          ELSE /\ detailPane' = Pane("Welcome", <<>>)
               /\ UNCHANGED conversations
    /\ conversationsAvailable' = TRUE
    /\ UNCHANGED <<sidebarBanner, lastClose, connState>>
    /\ UNCHANGED <<UiOther, otherVars, addrVars, connVars, sendVars, readVars>>

\* onConversationSelected(conversationID), called by the sidebar for a
\* conversation it lists and by the notification click emitter (line 224)
\* with the chat GUID of a notification. For a guid the list does not hold
\* the updater throws at line 175 and sets no state.
OnConversationSelected ==
    /\ \E i \in 1..Len(conversations) :
          /\ conversations' = [conversations EXCEPT ![i].unreadMessages = FALSE]
          /\ detailPane' = Pane("Thread", <<conversations[i].guid>>)
    /\ UNCHANGED <<conversationsAvailable, sidebarBanner, fetches, lastClose,
                   connState>>
    /\ UNCHANGED <<UiOther, otherVars, addrVars, connVars, sendVars, readVars>>

\* onCreateSelected
OnCreateSelected ==
    /\ detailPane' = Pane("Create", <<>>)
    /\ UNCHANGED <<conversations, conversationsAvailable, sidebarBanner, fetches,
                   lastClose, connState>>
    /\ UNCHANGED <<UiOther, otherVars, addrVars, connVars, sendVars, readVars>>

\* The guid is the guid of a conversation of the list.
Listed(list, guid) == \E i \in 1..Len(list) : list[i].guid = guid

\* onConversationCreated's list that never takes up the new conversation.
WithCreatedDropped(list, newConversation) == list

\* onConversationCreated's new list, lines 204 and 210: the old list when a
\* conversation with the guid exists, the new conversation in front otherwise.
WithCreated(list, newConversation) ==
    IF Listed(list, newConversation.guid)
    THEN list
    ELSE <<newConversation>> \o list

\* onConversationCreated, called by the create pane with the conversation it
\* made or found.
OnConversationCreated ==
    /\ detailPane.type = "Create"
    /\ \E guid \in Guids, date \in Dates :
          /\ detailPane' = Pane("Thread", <<guid>>)
          /\ conversations' = WithCreated(conversations, Conv(guid, FALSE, date))
    /\ UNCHANGED <<conversationsAvailable, sidebarBanner, fetches, lastClose,
                   connState>>
    /\ UNCHANGED <<UiOther, otherVars, addrVars, connVars, sendVars, readVars>>


(***************************************************************************)
(* Messaging: message updates and conversations fetched for them           *)
(***************************************************************************)

\* fetchConversationInfo promises pending at one time.
MaxInfoFetches == 2

\* Messaging after construction: no request pending, the preview map of
\* line 123 empty.
MsgQuiet ==
    /\ infoFetches = EmptyBag
    /\ pendingConversationPreviews = [g \in Guids |-> <<>>]

\* The conversation items an update can carry: messages, with a sender when
\* they are incoming, and one item that is not a message.
Items ==
    [type : {"message"}, chatGuid : Guids, date : Dates, sender : BOOLEAN]
    \cup {[type |-> "action", chatGuid |-> "a", date |-> 2, sender |-> FALSE]}

\* The item arrays of an update: one item, two items of one chat, or an
\* incoming message of each chat.
ItemArrays ==
    {<<i>> : i \in Items}
    \cup {<<i, j>> \in Items \X Items :
            /\ i.type = "message" /\ j.type = "message"
            /\ i.sender /\ j.sender
            /\ \/ i.chatGuid = j.chatGuid /\ i.date # j.date
               \/ i.chatGuid = "a" /\ j.chatGuid = "b"}

\* The reduce of lines 253-260: the most recent message item of each chat,
\* in the order in which the chats first appear (the order of Object.keys).
RECURSIVE SortedItems(_)
SortedItems(itemArray) ==
    IF itemArray = <<>> THEN <<>>
    ELSE LET accumulator == SortedItems(SubSeq(itemArray, 1, Len(itemArray) - 1))
             item == itemArray[Len(itemArray)]
         IN  IF item.type # "message" THEN accumulator
             ELSE IF \E k \in 1..Len(accumulator) :
                        accumulator[k].chatGuid = item.chatGuid
             THEN [k \in 1..Len(accumulator) |->
                      IF /\ accumulator[k].chatGuid = item.chatGuid
                         /\ ~(accumulator[k].date > item.date)
                      THEN item
                      ELSE accumulator[k]]
             ELSE Append(accumulator, item)

\* findIndex(conversation => conversation.guid === guid), for a listed guid.
IndexOf(list, guid) == CHOOSE i \in 1..Len(list) : list[i].guid = guid

\* findIndex(conversation => conversation.preview.date < date), with the
\* length of the list in place of -1 (lines 304-305 and 331-332), 1-based.
OlderConversationIndex(list, date) ==
    IF \E i \in 1..Len(list) : list[i].date < date
    THEN CHOOSE i \in 1..Len(list) :
            /\ list[i].date < date
            /\ \A j \in 1..(i - 1) : ~(list[j].date < date)
    ELSE Len(list) + 1

\* splice(i, 1) and splice(i, 0, conversation), 1-based.
Removed(list, i) == SubSeq(list, 1, i - 1) \o SubSeq(list, i + 1, Len(list))

Spliced(list, i, conversation) ==
    SubSeq(list, 1, i - 1) \o <<conversation>> \o SubSeq(list, i, Len(list))

\* The unread flag of an updated conversation, line 328: set for an incoming
\* message unless the detail pane shows the conversation.
MarkedUnread(conversation, item, pane) ==
    IF ~(pane.type = "Thread" /\ pane.arg = <<item.chatGuid>>) /\ item.sender
    THEN TRUE
    ELSE conversation.unreadMessages

\* The loop of lines 321-334: each listed conversation with an item takes the
\* item as its preview and is sorted into the list again.
RECURSIVE WithPreviews(_, _, _)
WithPreviews(list, items, pane) ==
    IF items = <<>> THEN list
    ELSE LET item == Head(items)
         IN  IF ~Listed(list, item.chatGuid)
             THEN WithPreviews(list, Tail(items), pane)
             ELSE LET matchedConversationIndex == IndexOf(list, item.chatGuid)
                      updatedConversation ==
                          [list[matchedConversationIndex] EXCEPT
                              !.date = item.date,
                              !.unreadMessages =
                                  MarkedUnread(list[matchedConversationIndex],
                                               item, pane)]
                      rest == Removed(list, matchedConversationIndex)
                  IN  WithPreviews(
                          Spliced(rest, OlderConversationIndex(rest, item.date),
                                  updatedConversation),
                          Tail(items), pane)

\* The chat GUIDs of the items, in order, that the list does not hold
\* (line 263).
NewChatGUIDs(items, list) ==
    SelectSeq([k \in 1..Len(items) |-> items[k].chatGuid],
              LAMBDA guid : ~Listed(list, guid))

\* pendingConversationPreviews after line 266.
WithPendingPreviews(previews, items, list) ==
    [g \in Guids |->
        IF \E k \in 1..Len(items) :
              items[k].chatGuid = g /\ ~Listed(list, g)
        THEN <<(CHOOSE item \in {items[k] : k \in 1..Len(items)} :
                    item.chatGuid = g).date>>
        ELSE previews[g]]

\* onMessageUpdate(itemArray). The notifications of lines 376-410 change no
\* state of the component.
OnMessageUpdate ==
    /\ \E itemArray \in ItemArrays :
          LET sortedItems == SortedItems(itemArray)
              newChatGUIDs == NewChatGUIDs(sortedItems, conversations)
          IN  /\ IF newChatGUIDs # <<>>
                 THEN /\ BagCardinality(infoFetches) < MaxInfoFetches
                      /\ pendingConversationPreviews' =
                            WithPendingPreviews(pendingConversationPreviews,
                                                sortedItems, conversations)
                      /\ infoFetches' = infoFetches (+) SetToBag({newChatGUIDs})
                 ELSE UNCHANGED <<pendingConversationPreviews, infoFetches>>
              /\ conversations' = WithPreviews(conversations, sortedItems, detailPane)
    /\ UNCHANGED <<conversationsAvailable, detailPane, sidebarBanner, fetches,
                   lastClose, connState>>
    /\ UNCHANGED <<UiOther, lenVars, reqVars, addrVars, connVars, sendVars, readVars>>

\* What fetchConversationInfo can resolve to for each chat: no conversation
\* (the request for it failed) or the conversation as the server has it.
InfoResults ==
    {result \in [Guids -> {<<>>} \cup {<<Conv(g, FALSE, 1)>> : g \in Guids}] :
        \A g \in Guids : result[g] # <<>> => result[g][1].guid = g}

\* The loop of lines 274-291 over the result: st.previews is the preview map
\* and st.array is newConversationArray.
RECURSIVE Collected(_, _, _)
Collected(guids, result, st) ==
    IF guids = <<>> THEN st
    ELSE LET chatGUID == Head(guids)
         IN  IF result[chatGUID] = <<>>
             THEN Collected(Tail(guids), result,
                      [previews |-> [st.previews EXCEPT ![chatGUID] = <<>>],
                       array |-> st.array])
             ELSE Collected(Tail(guids), result,
                      [previews |-> [st.previews EXCEPT ![chatGUID] = <<>>],
                       array |-> Append(st.array,
                           IF st.previews[chatGUID] # <<>>
                           THEN [result[chatGUID][1] EXCEPT
                                    !.date = st.previews[chatGUID][1]]
                           ELSE result[chatGUID][1])])

\* The loop of lines 299-309 without the test of line 301.
RECURSIVE WithNewUnchecked(_, _)
WithNewUnchecked(list, array) ==
    IF array = <<>> THEN list
    ELSE WithNewUnchecked(
             Spliced(list, OlderConversationIndex(list, Head(array).date), Head(array)),
             Tail(array))

\* The loop of lines 299-309: each new conversation that the list does not
\* hold yet is sorted into it.
RECURSIVE WithNew(_, _)
WithNew(list, array) ==
    IF array = <<>> THEN list
    ELSE IF Listed(list, Head(array).guid)
    THEN WithNew(list, Tail(array))
    ELSE WithNew(
             Spliced(list, OlderConversationIndex(list, Head(array).date), Head(array)),
             Tail(array))

\* A fetchConversationInfo promise settles: its then-callback of lines
\* 270-313 runs, or the promise rejects and nothing runs.
FetchConversationInfoResult ==
    /\ \E guids \in BagToSet(infoFetches) :
          /\ infoFetches' = infoFetches (-) SetToBag({guids})
          /\ \/ UNCHANGED <<pendingConversationPreviews, conversations>>
             \/ \E result \in InfoResults :
                   LET st == Collected(guids, result,
                                 [previews |-> pendingConversationPreviews,
                                  array |-> <<>>])
                   IN  /\ pendingConversationPreviews' = st.previews
                       /\ conversations' = WithNew(conversations, st.array)
    /\ UNCHANGED <<conversationsAvailable, detailPane, sidebarBanner, fetches,
                   lastClose, connState>>
    /\ UNCHANGED <<UiOther, lenVars, reqVars, addrVars, connVars, sendVars, readVars>>


(***************************************************************************)
(* Protocol Manager: pending requests and the chunked upload               *)
(***************************************************************************)

\* Requests issued in one run, timer ticks until a request times out, and
\* chunks of one file.
MaxRequests == 2
TimeoutTicks == 2
MaxChunks == 2

ReqQuiet ==
    /\ reqs = <<>>
    /\ table = {}
    /\ inbound = {}
    /\ responded = {}
    /\ dropped = {}
    /\ chunksSent = <<>>

\* A request as registered: pending, its timer at zero. chunks is the number
\* of chunks of a sendFile request and sent the chunks uploaded so far.
Request(kind, chunks) ==
    [kind |-> kind, outcome |-> "pending", age |-> 0, chunks |-> chunks, sent |-> 0]

ReqOther == <<UiOther, uiVars, lenVars, msgVars, addrVars, connVars, sendVars,
             readVars>>

\* The transport reports opened: a connection lifetime begins.
ProtoOpen ==
    /\ connState = "disconnected"
    /\ connState' = "connected"
    /\ UNCHANGED <<reqVars, ReqOther>>

\* A caller issues a correlated request, such as the fetchConversations of
\* Messaging.onOpen: the entry is registered, then the request transmitted.
SendRequest ==
    /\ connState = "connected"
    /\ Len(reqs) < MaxRequests
    /\ \E kind \in {"fetchConversations", "other"} :
          reqs' = Append(reqs, Request(kind, 0))
    /\ table' = table \cup {Len(reqs) + 1}
    /\ UNCHANGED <<inbound, responded, dropped, chunksSent, connState, ReqOther>>

\* sendFile(requestID, ...) for a file of one or more chunks.
SendFile ==
    /\ connState = "connected"
    /\ Len(reqs) < MaxRequests
    /\ \A id \in 1..Len(reqs) : reqs[id].kind # "sendFile"
    /\ \E chunks \in 1..MaxChunks :
          reqs' = Append(reqs, Request("sendFile", chunks))
    /\ table' = table \cup {Len(reqs) + 1}
    /\ UNCHANGED <<inbound, responded, dropped, chunksSent, connState, ReqOther>>

\* An upload that marks every chunk as the last one.
UploadFilePacketAlwaysLast ==
    /\ connState = "connected"
    /\ \E id \in table :
          /\ reqs[id].kind = "sendFile"
          /\ reqs[id].sent < reqs[id].chunks
          /\ chunksSent' = Append(chunksSent,
                [requestID |-> id, requestIndex |-> reqs[id].sent,
                 isLast |-> TRUE])
          /\ reqs' = [reqs EXCEPT ![id].sent = @ + 1]
    /\ UNCHANGED <<table, inbound, responded, dropped, connState, ReqOther>>

\* The running upload sends its next chunk:
\* uploadFilePacket(requestID, requestIndex, ..., isLast).
UploadFilePacket ==
    /\ connState = "connected"
    /\ \E id \in table :
          /\ reqs[id].kind = "sendFile"
          /\ reqs[id].sent < reqs[id].chunks
          /\ chunksSent' = Append(chunksSent,
                [requestID |-> id, requestIndex |-> reqs[id].sent,
                 isLast |-> reqs[id].sent + 1 = reqs[id].chunks])
          /\ reqs' = [reqs EXCEPT ![id].sent = @ + 1]
    /\ UNCHANGED <<table, inbound, responded, dropped, connState, ReqOther>>

\* The relay answers a request it has received in full; it may also never
\* answer.
RelayResponds ==
    /\ connState = "connected"
    /\ \E id \in 1..Len(reqs) :
          /\ id \notin responded
          /\ reqs[id].outcome # "ConnectionLost"
          /\ reqs[id].sent = reqs[id].chunks
          /\ inbound' = inbound \cup {id}
          /\ responded' = responded \cup {id}
    /\ UNCHANGED <<reqs, table, dropped, chunksSent, connState, ReqOther>>

\* A response frame is dispatched: matched against the table, or dropped.
ResponseArrives ==
    /\ connState = "connected"
    /\ \E id \in inbound :
          /\ inbound' = inbound \ {id}
          /\ IF id \in table
             THEN /\ reqs' = [reqs EXCEPT ![id].outcome =
                                IF reqs[id].kind = "sendFile" THEN "hash" ELSE "ok"]
                  /\ table' = table \ {id}
                  /\ UNCHANGED dropped
             ELSE /\ dropped' = dropped \cup {id}
                  /\ UNCHANGED <<reqs, table>>
    /\ UNCHANGED <<responded, chunksSent, connState, ReqOther>>

\* Time passes and no pending request is ever timed out.
TickWithoutExpiry ==
    /\ table # {}
    /\ \A id \in table : reqs[id].age < TimeoutTicks + 1
    /\ reqs' = [id \in 1..Len(reqs) |->
                  IF id \in table THEN [reqs[id] EXCEPT !.age = @ + 1] ELSE reqs[id]]
    /\ UNCHANGED <<table, inbound, responded, dropped, chunksSent, connState, ReqOther>>

\* Time passes: every pending request is one tick older, and those whose
\* interval has run out are failed with Timeout and leave the table.
Tick ==
    /\ table # {}
    /\ LET expired == {id \in table : reqs[id].age + 1 = TimeoutTicks}
       IN  /\ reqs' = [id \in 1..Len(reqs) |->
                         IF id \in expired
                         THEN [reqs[id] EXCEPT !.age = @ + 1, !.outcome = "Timeout"]
                         ELSE IF id \in table
                         THEN [reqs[id] EXCEPT !.age = @ + 1]
                         ELSE reqs[id]]
           /\ table' = table \ expired
    /\ UNCHANGED <<inbound, responded, dropped, chunksSent, connState, ReqOther>>

\* A connection loss that leaves the pending requests as they are.
ConnectionLostKeepingPending ==
    /\ connState = "connected"
    /\ connState' = "disconnected"
    /\ inbound' = {}
    /\ UNCHANGED <<reqs, table, responded, dropped, chunksSent, ReqOther>>

\* The transport reports closed: every pending request is failed with
\* ConnectionLost, and responses on their way are lost with the connection.
ConnectionLost ==
    /\ connState = "connected"
    /\ connState' = "disconnected"
    /\ reqs' = [id \in 1..Len(reqs) |->
                  IF id \in table
                  THEN [reqs[id] EXCEPT !.outcome = "ConnectionLost"]
                  ELSE reqs[id]]
    /\ table' = {}
    /\ inbound' = {}
    /\ UNCHANGED <<responded, dropped, chunksSent, ReqOther>>


(***************************************************************************)
(* Specifications                                                          *)
(***************************************************************************)

\* Nothing outside the transport has happened yet.
ClientQuiet == AppQuiet /\ UiQuiet /\ LenQuiet /\ ReqQuiet /\ MsgQuiet

\* A proxy built with a primary address only, after start() and the socket's
\* "connect" event.
ConnOpen ==
    /\ override = <<[primary |-> AddrPrimary, fallback |-> <<>>]>>
    /\ store = [ServerAddress |-> <<>>, ServerAddressFallback |-> <<>>]
    /\ isStopping = TRUE
    /\ sock = "open"
    /\ startPc = "idle"
    /\ startPrimary = <<>>
    /\ handlers = <<[secondary |-> <<>>]>>
    /\ log = << Event("start", "", <<>>),
                Event("connect", "start", <<parseAddress(AddrPrimary)>>),
                Event("socketConnect", "", <<>>),
                Event("notifyOpen", "", <<>>) >>

\* The connection lifecycle, from construction.
Init ==
    /\ AddrQuiet
    /\ override \in Overrides
    /\ store \in Stores
    /\ ConnQuiet
    /\ SendQuiet
    /\ ReadQuiet
    /\ ClientQuiet

Next ==
    \/ Start
    \/ StartPrimaryRead
    \/ StartFallbackRead
    \/ Stop
    \/ SocketConnect
    \/ SocketClose

Spec == Init /\ [][Next]_vars

\* parseAddress on its own.
InitAddr ==
    /\ address \in AddressInputs
    /\ parsed = <<>>
    /\ override = <<>>
    /\ store = [ServerAddress |-> <<>>, ServerAddressFallback |-> <<>>]
    /\ ConnQuiet
    /\ SendQuiet
    /\ ReadQuiet
    /\ ClientQuiet

NextAddr == ParseAddress

SpecAddr == InitAddr /\ [][NextAddr]_vars

\* The outbound direction of an open connection.
InitSend == AddrQuiet /\ ConnOpen /\ SendQuiet /\ ReadQuiet /\ ClientQuiet

NextSend ==
    \/ SendCall
    \/ RunEncryptCallback
    \/ EncryptFulfils
    \/ EncryptRejects

SpecSend == InitSend /\ [][NextSend]_vars

\* The inbound direction of an open connection.
InitRead == AddrQuiet /\ ConnOpen /\ SendQuiet /\ ReadQuiet /\ ClientQuiet

NextRead ==
    \/ PeerSend
    \/ ReadableEvent
    \/ RunDecryptCallback
    \/ DecryptSettles

SpecRead == InitRead /\ [][NextRead]_vars

\* The inbound direction of a connection that is stopped or lost while frames
\* arrive and decryptData calls are in flight.
InitReadClose == InitRead

NextReadClose ==
    \/ PeerSend
    \/ ReadableEvent
    \/ RunDecryptCallback
    \/ DecryptSettles
    \/ Stop
    \/ SocketClose

SpecReadClose == InitReadClose /\ [][NextReadClose]_vars

\* The Connection Manager with its two callers, from application start.
InitApp ==
    /\ AddrQuiet
    /\ override = <<>>
    /\ store \in Stores
    /\ ConnQuiet
    /\ SendQuiet
    /\ ReadQuiet
    /\ ClientQuiet

NextApp ==
    \/ MessagingMount
    \/ DialogMount
    \/ SubmitForm
    \/ StorageWritesDone
    \/ Finish
    \/ ReconnectFires
    \/ ProxyPrimaryRead
    \/ ProxyFallbackRead
    \/ ProxySocketConnect
    \/ ProxySocketClose

SpecApp == InitApp /\ [][NextApp]_vars

\* The same with the ways in which the configuration dialog ends without
\* Done: a storage write that fails and the dialog taken away.
InitDialog == InitApp

NextDialog ==
    \/ MessagingMount
    \/ DialogMount
    \/ SubmitForm
    \/ StorageWritesDone
    \/ StorageWriteFails
    \/ Finish
    \/ DialogUnmount
    \/ ReconnectFires
    \/ ProxyPrimaryRead
    \/ ProxyFallbackRead
    \/ ProxySocketConnect
    \/ ProxySocketClose

SpecDialog == InitDialog /\ [][NextDialog]_vars

\* The mounted Messaging component and the callbacks it receives.
InitUI ==
    /\ AddrQuiet
    /\ override = <<>>
    /\ store = [ServerAddress |-> <<>>, ServerAddressFallback |-> <<>>]
    /\ ConnQuiet
    /\ SendQuiet
    /\ ReadQuiet
    /\ ClientQuiet

NextUI ==
    \/ OnConnecting
    \/ OnOpen
    \/ OnClose
    \/ FetchConversationsResult
    \/ OnConversationSelected
    \/ OnCreateSelected
    \/ OnConversationCreated

SpecUI == InitUI /\ [][NextUI]_vars

\* The Messaging component while connected, from the moment its onOpen
\* callbacks have asked for the conversations: one fetchConversations promise
\* is pending, or more after a connection that was lost and opened again
\* before the first result.
InitMsg ==
    /\ AddrQuiet
    /\ override = <<>>
    /\ store = [ServerAddress |-> <<>>, ServerAddressFallback |-> <<>>]
    /\ ConnQuiet
    /\ SendQuiet
    /\ ReadQuiet
    /\ proxies = <<NewProxy(<<>>)>>
    /\ dataProxy = 1
    /\ disableAutomaticReconnections = FALSE
    /\ reconnectScheduled = FALSE
    /\ messagingMounted = FALSE
    /\ dialogState = "unmounted"
    /\ submits = <<>>
    /\ appLog = <<>>
    /\ connState = "connected"
    /\ conversations = <<>>
    /\ conversationsAvailable = FALSE
    /\ detailPane = Pane("Loading", <<>>)
    /\ sidebarBanner = <<>>
    /\ fetches \in 1..MaxFetches
    /\ lastClose = <<>>
    /\ LenQuiet
    /\ ReqQuiet
    /\ MsgQuiet

NextMsg ==
    \/ FetchConversationsResult
    \/ OnConversationSelected
    \/ OnCreateSelected
    \/ OnConversationCreated
    \/ OnMessageUpdate
    \/ FetchConversationInfoResult

SpecMsg == InitMsg /\ [][NextMsg]_vars

\* An open connection on which the peer sends the header of one frame.
InitLen ==
    /\ AddrQuiet
    /\ ConnOpen
    /\ SendQuiet
    /\ ReadQuiet
    /\ AppQuiet
    /\ UiQuiet
    /\ ReqQuiet
    /\ MsgQuiet
    /\ frameLength \in {<<l>> : l \in Lengths}
    /\ lenPc = "ready"

NextLen ==
    \/ PeerSendsHeader
    \/ ReadableEvent

SpecLen == InitLen /\ [][NextLen]_vars

\* The Protocol Manager over connection lifetimes.
InitProto ==
    /\ AddrQuiet
    /\ override = <<>>
    /\ store = [ServerAddress |-> <<>>, ServerAddressFallback |-> <<>>]
    /\ ConnQuiet
    /\ SendQuiet
    /\ ReadQuiet
    /\ ClientQuiet

NextProto ==
    \/ ProtoOpen
    \/ SendRequest
    \/ SendFile
    \/ UploadFilePacket
    \/ RelayResponds
    \/ ResponseArrives
    \/ Tick
    \/ ConnectionLost

SpecProto == InitProto /\ [][NextProto]_vars


(***************************************************************************)
(* Properties of parseAddress (SpecAddr)                                   *)
(***************************************************************************)

\* The address grammar: s ends, from position i on, in a ':' and a port of
\* one to five digits whose value is at most 65535.
PortSuffixAt(s, i) ==
    LET d == SubSeq(s, i + 1, Len(s))
    IN  /\ s[i] = ":"
        /\ Len(d) \in 1..5
        /\ AllDigits(d)
        /\ DigitsValue(d) <= 65535

\* C8: an address that ends in ':' and a valid port parses to the text before
\* that suffix as host and to that number as port; any other address parses
\* to itself as host and to port 1359.
C8_ParseRecoversHostAndPort ==
    parsed # <<>> =>
        IF \E i \in 1..Len(address) : PortSuffixAt(address, i)
        THEN \A i \in 1..Len(address) :
                PortSuffixAt(address, i) =>
                    parsed[1] = [host |-> SubSeq(address, 1, i - 1),
                                 port |-> <<DigitsValue(SubSeq(address, i + 1,
                                                               Len(address)))>>]
        ELSE parsed[1] = [host |-> address, port |-> <<1359>>]

\* C9: the port parseAddress returns is an integer in [0, 65535], whatever
\* the input string.
C9_PortInRange ==
    parsed # <<>> =>
        /\ parsed[1].port # NaN
        /\ parsed[1].port[1] >= 0
        /\ parsed[1].port[1] <= 65535


(***************************************************************************)
(* Properties of the connection lifecycle (Spec)                           *)
(***************************************************************************)

\* Both a primary and a fallback address are configured.
FallbackConfigured ==
    IF override # <<>>
    THEN override[1].fallback # <<>>
    ELSE store.ServerAddress # <<>> /\ store.ServerAddressFallback # <<>>

\* Index of the last start() call before position k of the history, or 0.
LastStart(k) ==
    LET starts == {j \in 1..(k - 1) : log[j].type = "start"}
    IN  IF starts = {} THEN 0 ELSE CHOOSE j \in starts : \A m \in starts : m <= j

\* Positions after the last start() call before k and before k.
SinceStart(k) == (LastStart(k) + 1)..(k - 1)

FallbackAttempts(k) ==
    {j \in SinceStart(k) : log[j].type = "connect" /\ log[j].from = "close"}

\* The connection started last had not opened and stop() had not been
\* called when the event at position k happened.
NeverOpenedNorStopped(k) ==
    \A j \in SinceStart(k) : log[j].type \notin {"socketConnect", "stop"}

\* C1: with a primary and a fallback address, when the socket closes before
\* it ever connected and stop() was not called, the failure is reported only
\* after exactly one connect attempt to the fallback address, and no second
\* fallback attempt is made.
C1_FallbackOnceBeforeFailure ==
    FallbackConfigured =>
        \A k \in 1..Len(log) :
            NeverOpenedNorStopped(k) =>
                /\ log[k].type = "notifyClose" /\ log[k].from = "close"
                      => Cardinality(FallbackAttempts(k)) = 1
                /\ log[k].type = "connect" /\ log[k].from = "close"
                      => FallbackAttempts(k) = {}

\* C2: once stop() has been called no socket close event leads to a
\* socket.connect call, with or without a fallback address, and the stopping
\* flag is set whenever a stop() is closing the socket.
C2_NoConnectOnCloseAfterStop ==
    /\ \A i, j \in 1..Len(log) :
            i < j /\ log[i].type = "stop" /\ log[j].type = "connect"
                => log[j].from # "close"
    /\ sock = "ending" => isStopping

\* A close event handled after stop(), with a fallback address configured:
\* the listener reported the close.
C2_Witness ==
    /\ FallbackConfigured
    /\ \E i, j \in 1..Len(log) :
            /\ i < j /\ j < Len(log)
            /\ log[i].type = "stop"
            /\ log[j].type = "socketClose"
            /\ log[j + 1] = Event("notifyClose", "close", ErrConnection)

\* No override and no stored server address.
AddressAbsent == override = <<>> /\ store.ServerAddress = <<>>

\* C10: without an address override and without a stored server address,
\* every start() reports notifyClose(ConnectionErrorCode.Connection) once and
\* socket.connect is never called, neither before nor after the report.
C10_AbsentAddressFailsWithoutConnect ==
    AddressAbsent =>
        /\ Count("connect") = 0
        /\ \A k \in 1..Len(log) :
              log[k].type = "notifyClose"
                  => log[k] = Event("notifyClose", "start", ErrConnection)
        /\ Count("notifyClose") =
              Count("start") - (IF startPc = "idle" THEN 0 ELSE 1)

\* The report has been made and the socket has gone through a stop() and its
\* close event since.
C10_Witness ==
    /\ AddressAbsent
    /\ \E i, j \in 1..Len(log) :
            /\ i < j
            /\ log[i] = Event("notifyClose", "start", ErrConnection)
            /\ log[j].type = "socketClose"

\* The events one step appends to the history.
NewEvents == SubSeq(log', Len(log) + 1, Len(log'))

\* The close listener at position i takes the reporting branch: the stopping
\* flag is set or its start() had no fallback address.
ReportsClose(i) == isStopping \/ handlers[i].secondary = <<>>

C11_CloseStep ==
    /\ NewEvents # <<>> /\ NewEvents[1].type = "socketClose" =>
          /\ Len(NewEvents) = 1 + Len(handlers)
          /\ \A i \in 1..Len(handlers) :
                ReportsClose(i) =>
                    NewEvents[i + 1] = Event("notifyClose", "close", ErrConnection)
          /\ (\A i \in 1..Len(handlers) : ReportsClose(i)) => sock' = "closed"
    /\ sock = "closed" /\ sock' # "closed" =>
          /\ sock' = "connecting"
          /\ log'[Len(log')].type = "connect"
          /\ log'[Len(log')].from = "start"

\* C11: on a socket close event where no fallback address is configured or
\* the stopping flag is set, every close listener reports the closure through
\* notifyClose(Connection) and the socket stays closed; a closed socket
\* connects again only through a connect call made by start().
C11_CloseReportedWithoutRetry == [][C11_CloseStep]_vars

\* A close was reported, the socket stayed closed, and a later start() of the
\* owner connected again.
C11_Witness ==
    \E k, s, c \in 1..Len(log) :
        /\ k + 1 < s /\ s < c
        /\ log[k].type = "socketClose"
        /\ log[k + 1] = Event("notifyClose", "close", ErrConnection)
        /\ \A j \in (k + 1)..(s - 1) : log[j].type # "connect"
        /\ log[s].type = "start"
        /\ log[c].type = "connect" /\ log[c].from = "start"

\* The events of the given type that directly follow position k of the
\* history and come from the given place.
RECURSIVE Following(_, _, _)
Following(k, type, from) ==
    IF k + 1 <= Len(log) /\ log[k + 1].type = type /\ log[k + 1].from = from
    THEN 1 + Following(k + 1, type, from)
    ELSE 0

\* Up to position k of the history the instance was used in whole cycles:
\* every start() but the first was called on a socket that had closed and had
\* not been connected since.
WholeCycles(k) ==
    \A s \in 1..k :
        log[s].type = "start" /\ (\E j \in 1..(s - 1) : log[j].type = "start") =>
            \E c \in 1..(s - 1) :
                /\ log[c].type = "socketClose"
                /\ \A j \in (c + 1)..(s - 1) : log[j].type \notin {"start", "connect"}

\* C21: each socket event of a connection that start() made produces exactly
\* one notification of the owner, after any number of start() and stop()
\* cycles on the one instance: one notifyOpen for a connect event, one
\* notifyClose for a close event.
C21_OneNotificationPerEvent ==
    \A k \in 1..Len(log) :
        (\E j \in 1..(k - 1) : log[j].type = "connect") /\ WholeCycles(k) =>
            /\ log[k].type = "socketConnect" =>
                  Following(k, "notifyOpen", "") = 1
            /\ log[k].type = "socketClose" =>
                  Following(k, "notifyClose", "close") = 1


(***************************************************************************)
(* Properties of the outbound direction (SpecSend)                         *)
(***************************************************************************)

\* C3: the frames are written to the socket in the order of the send() calls,
\* whatever the mix of encrypted and unencrypted sends and whenever each
\* encryptData call completes: the k-th frame written is the k-th send, and
\* once nothing is pending every send has been written (unless an encryption
\* failed).
C3_WrittenInSendOrder ==
    /\ writtenIds = [k \in 1..Len(writtenIds) |-> k]
    /\ (outHead = <<>> /\ outChain = <<>> /\ previousEncrypt # "rejected")
            => Len(writtenIds) = Len(sendCalls)

\* An encrypted send came first, an unencrypted one after it, both are
\* written and a third send is being encrypted.
C3_Witness ==
    /\ Len(sendCalls) >= 3
    /\ sendCalls[1].encrypt
    /\ ~sendCalls[2].encrypt
    /\ writtenIds = <<1, 2>>
    /\ outHead # <<>>

\* The wire format read back: the frames a byte string consists of, each a
\* 4-byte big-endian length, a flag byte and as many payload bytes as the
\* length says. Bytes that are no whole frame give a frame of length -1.
RECURSIVE ParseFrames(_)
ParseFrames(bytes) ==
    IF bytes = <<>> THEN <<>>
    ELSE IF Len(bytes) < 5 \/ bytes[1] # 0
    THEN <<[length |-> -1, flag |-> -1, payload |-> bytes]>>
    ELSE LET n == bytes[2] * 65536 + bytes[3] * 256 + bytes[4]
         IN  IF Len(bytes) < 5 + n
             THEN <<[length |-> -1, flag |-> -1, payload |-> bytes]>>
             ELSE <<[length |-> n, flag |-> bytes[5],
                     payload |-> SubSeq(bytes, 6, 5 + n)]>>
                     \o ParseFrames(SubSeq(bytes, 6 + n, Len(bytes)))

\* The frame the send with index id has to put on the wire.
ExpectedFrame(id) ==
    LET call == sendCalls[id]
        payload == IF call.encrypt THEN encryptData(call.data) ELSE call.data
    IN  [length |-> Len(payload), flag |-> IF call.encrypt THEN 1 ELSE 0,
         payload |-> payload]

\* C6: the bytes written to the socket are a concatenation of whole frames,
\* one per written send and in that order; each is a 4-byte big-endian length
\* equal to the length of the payload written (the ciphertext when
\* encrypted), a flag byte that is 1 exactly for an encrypted payload, and
\* the payload.
C6_WrittenBytesAreWholeFrames ==
    ParseFrames(written) = [k \in 1..Len(writtenIds) |-> ExpectedFrame(writtenIds[k])]

\* An encrypted and an unencrypted frame, both with a payload, are written.
C6_Witness ==
    \E i, j \in 1..Len(writtenIds) :
        /\ sendCalls[writtenIds[i]].encrypt
        /\ ~sendCalls[writtenIds[j]].encrypt
        /\ sendCalls[writtenIds[i]].data # <<>>
        /\ sendCalls[writtenIds[j]].data # <<>>

\* Nothing more will happen on the outbound side without a new send():
\* no encryptData call is in flight and no then-callback can run.
SendIdle ==
    /\ outHead = <<>>
    /\ outChain = <<>> \/ previousEncrypt = "rejected"

\* The send() calls whose frame has not been written.
Unwritten ==
    {id \in 1..Len(sendCalls) :
        \A k \in 1..Len(writtenIds) : writtenIds[k] # id}

\* C20: a rejected encryptData call costs only its own frame: once nothing
\* is in flight, every other frame submitted, before or after the rejection,
\* encrypted or not, has been written to the socket.
C20_RejectionDoesNotBlock ==
    SendIdle =>
        Cardinality(Unwritten) <= (IF previousEncrypt = "rejected" THEN 1 ELSE 0)


(***************************************************************************)
(* Properties of the inbound direction (SpecRead)                          *)
(***************************************************************************)

\* Nothing is left to happen for the frames sent so far: every byte has
\* reached the socket, no decryptData call is in flight and no then-callback
\* can run.
ReadIdle ==
    /\ inFlight = <<>>
    /\ inHead = <<>>
    /\ inChain = <<>> \/ previousDecrypt = "rejected"

IsPrefix(p, q) == Len(p) <= Len(q) /\ p = SubSeq(q, 1, Len(p))

\* The notifyMessage calls made so far are the first frames of the wire, in
\* wire order.
DeliveredIsPrefix == IsPrefix(delivered, wire)

\* C4: notifyMessage is called for the frames in their order of arrival,
\* whatever the mix of encrypted and unencrypted frames and whenever each
\* decryptData call completes: the calls made are the first frames of the
\* wire in order, and once nothing is pending every frame (here: of frames
\* that carry a payload) has been delivered.
C4_DeliveredInArrivalOrder ==
    /\ DeliveredIsPrefix
    /\ (ReadIdle /\ \A i \in 1..Len(wire) : wire[i].payload # <<>>)
            => delivered = wire

\* C5: the bytes writeSync produces for one payload of any length, 0
\* included, and any flag, fed to the read pipeline, give exactly one
\* delivered frame with that flag and that payload, and leave the pipeline
\* waiting for a header.
C5_FrameRoundTrip ==
    (Len(wire) = 1 /\ ReadIdle) =>
        /\ delivered = wire
        /\ messageData = <<>>

\* C7: a stream of well-formed frames, split in any way across readable
\* events, is delivered as exactly that sequence of frames: when every byte
\* has arrived and nothing is pending, each frame has been delivered, no byte
\* is left unread and the pipeline waits for a header.
C7_SplitStreamDelivered ==
    ReadIdle =>
        /\ delivered = wire
        /\ rbuf = <<>>
        /\ messageData = <<>>


\* A frame as the read loop takes it off the stream: the flag of the header
\* it was read under and the body bytes.
Taken(isEncrypted, data) == [isEncrypted |-> isEncrypted, data |-> data]

\* The bodies read so far, in order: those delivered, the one being
\* decrypted, and those waiting in the chain.
BodiesRead ==
    [i \in 1..Len(delivered) |->
        Taken(delivered[i].encrypted,
              IF delivered[i].encrypted THEN encryptData(delivered[i].payload)
              ELSE delivered[i].payload)]
    \o [i \in 1..Len(inHead) |->
            Taken(TRUE, inHead[i].data)]
    \o [i \in 1..Len(inChain) |->
            Taken(inChain[i].isEncrypted, inChain[i].data)]

\* C19: every body the read pipeline takes off the stream was read under
\* its own header: the k-th body read is the body of the k-th frame sent,
\* with that frame's flag, also when readable events arrive while the first
\* encrypted frame is being decrypted.
C19_NoStaleHeader ==
    \A k \in 1..Len(BodiesRead) :
        /\ k <= Len(wire)
        /\ BodiesRead[k] =
              Taken(wire[k].encrypted,
                    IF wire[k].encrypted THEN encryptData(wire[k].payload)
                    ELSE wire[k].payload)


(***************************************************************************)
(* Properties of a connection that ends while it receives (SpecReadClose)  *)
(***************************************************************************)

\* The transport has reported the end of the connection to its owner.
Ended == \E k \in 1..Len(log) : log[k].type = "notifyClose"

\* C22: once notifyClose was emitted for the connection, no step emits a
\* notifyMessage any more, a step in which a decryptData call started before
\* the close completes included.
C22_NoMessageAfterClose == [][Ended => delivered' = delivered]_vars


(***************************************************************************)
(* Properties of the Connection Manager and its callers (SpecApp)          *)
(***************************************************************************)

\* Transports whose socket is connecting or connected.
LiveProxies == {i \in 1..Len(proxies) : proxies[i].sock \in {"connecting", "open"}}

\* Transports with a connection attempt under way: a start() call that has
\* not reached socket.connect yet, or a socket that is connecting.
AttemptsInFlight ==
    {i \in 1..Len(proxies) :
        proxies[i].pc # "idle" \/ proxies[i].sock = "connecting"}

Logs(type) ==
    /\ Len(appLog') = Len(appLog) + 1
    /\ appLog'[Len(appLog')].type = type

C13_Step ==
    /\ Logs("submit") => disableAutomaticReconnections'
    /\ Logs("connect") /\ appLog'[Len(appLog')].from = "submitForm"
          => AppCount("submit") > 0
    /\ disableAutomaticReconnections =>
          (reconnectScheduled' => reconnectScheduled)

\* C13: submitForm sets the suppression flag before its connect() call is
\* made, and while the flag is set no step schedules a reconnection,
\* transport closes included; only finish clears the flag.
C13_NoReconnectWhileSuppressed == [][C13_Step]_vars

\* The transport that submitForm installed was started by its connect()
\* call and closed while the flag was set; nothing is scheduled.
C13_Witness ==
    /\ disableAutomaticReconnections
    /\ ~reconnectScheduled
    /\ connState = "disconnected"
    /\ \E j, k \in 1..Len(appLog) :
          /\ j < k
          /\ appLog[j].type = "connect"
          /\ appLog[j].from = "submitForm" /\ appLog[j].started
          /\ appLog[k].type = "closed" /\ appLog[k].suppressed


(***************************************************************************)
(* Properties of the configuration dialog (SpecDialog)                     *)
(***************************************************************************)

\* C27: automatic reconnection does not stay suppressed once the dialog is
\* finished with after a submitForm call: when the dialog is gone, by Done,
\* by a dismissal or by an unmount, with or without a connect() call,
\* setDisableAutomaticReconnections(false) has been called.
C27_ReconnectionRestored ==
    dialogState = "unmounted" => ~disableAutomaticReconnections


(***************************************************************************)
(* Properties of the Messaging component (SpecUI)                          *)
(***************************************************************************)

\* C14: from an onClose(reason) callback until the next onConnecting or
\* onOpen callback the Messaging state carries that reason: detailPane is
\* the error pane with that code or sidebarBanner is that code, whatever
\* fetchConversations results and pane selections come in between.
C14_CloseReasonObservable ==
    lastClose # <<>> =>
        \/ detailPane = Pane("Error", lastClose)
        \/ sidebarBanner = lastClose


(***************************************************************************)
(* Properties of the conversation list of Messaging (SpecMsg)              *)
(***************************************************************************)

C24_DistinctGuids ==
    \A i, j \in 1..Len(conversations) :
        i # j => conversations[i].guid # conversations[j].guid

\* Two fetchConversationInfo requests for one unknown chat overlapped: the
\* result of one has used up the pending preview and the chat is listed,
\* while the other request is still pending.
C24_Witness ==
    \E guids \in BagToSet(infoFetches) :
        \E k \in 1..Len(guids) :
            /\ Listed(conversations, guids[k])
            /\ pendingConversationPreviews[guids[k]] = <<>>

\* C25: the conversation the detail pane shows is never flagged unread.
C25_ShownConversationRead ==
    detailPane.type = "Thread" =>
        \A i \in 1..Len(conversations) :
            conversations[i].guid = detailPane.arg[1] =>
                ~conversations[i].unreadMessages

\* The list is ordered by preview date, newest first.
Ordered(list) == \A i, j \in 1..Len(list) : i < j => list[i].date >= list[j].date

\* C26: a message update, the result of its fetchConversationInfo request
\* and onConversationCreated leave an ordered list ordered.
C26_OrderKept == [][Ordered(conversations) => Ordered(conversations')]_vars


(***************************************************************************)
(* Properties of the length field (SpecLen)                                *)
(***************************************************************************)

\* C15: for every frame length in [0, 2^32), the body size the read
\* pipeline takes from the header the writer produced is that length as an
\* unsigned number: its upper and lower 16 bits are those of the length, and
\* it is not negative.
C15_SizeIsUnsignedLength ==
    frameLength # <<>> /\ messageData # <<>> =>
        /\ messageData[1].size >= 0
        /\ messageData[1].size \div 65536 = frameLength[1].hi
        /\ messageData[1].size % 65536 = frameLength[1].lo


(***************************************************************************)
(* Properties of the Protocol Manager (SpecProto)                          *)
(***************************************************************************)

Ids == 1..Len(reqs)

\* A request that has been resolved keeps its result.
OutcomesKept ==
    \A id \in Ids :
        reqs[id].outcome # "pending" => reqs'[id].outcome = reqs[id].outcome

\* C16: a pending request is never older than its timeout interval; when
\* the interval has run out it is resolved with Timeout and is out of the
\* pending table; a response that arrives for it afterwards is dropped and
\* changes nothing, the Timeout result included.
C16_TimeoutResolvesAndRemoves ==
    /\ [](\A id \in Ids :
            /\ id \in table =>
                  reqs[id].outcome = "pending" /\ reqs[id].age < TimeoutTicks
            /\ reqs[id].outcome = "Timeout" =>
                  id \notin table /\ reqs[id].age = TimeoutTicks
            /\ id \in dropped => reqs[id].outcome = "Timeout")
    /\ [][OutcomesKept]_vars

\* A request timed out and the relay's late response to it was dropped.
C16_Witness ==
    \E id \in Ids :
        /\ reqs[id].outcome = "Timeout"
        /\ id \in dropped
        /\ id \notin table

C17_Step ==
    connState = "connected" /\ connState' = "disconnected" =>
        /\ table' = {}
        /\ \A id \in Ids :
              reqs'[id].outcome =
                  IF id \in table THEN "ConnectionLost" ELSE reqs[id].outcome

\* C17: the step that loses the connection fails every request pending at
\* that moment with ConnectionLost and empties the table, the others keep
\* their result; while disconnected no request is pending, so none a caller
\* awaits, fetchConversations included, is left unresolved.
C17_ConnectionLossFailsPending ==
    /\ [](connState = "disconnected" =>
            table = {} /\ \A id \in Ids : reqs[id].outcome # "pending")
    /\ [][C17_Step]_vars

\* The connection was lost with a fetchConversations request pending.
C17_Witness ==
    /\ connState = "disconnected"
    /\ \E id \in Ids :
          /\ reqs[id].kind = "fetchConversations"
          /\ reqs[id].outcome = "ConnectionLost"

\* C18: the chunks of an upload carry the request indices 0, 1, 2, ... in
\* the order sent, isLast is set on the final chunk and on no other, and
\* sendFile completes with a hash only when every chunk was sent: an upload
\* cut off by a connection loss before its final chunk never completes.
C18_ChunksInOrderLastFlagged ==
    /\ \A k \in 1..Len(chunksSent) :
          LET c == chunksSent[k]
          IN  /\ c.requestIndex = k - 1
              /\ reqs[c.requestID].kind = "sendFile"
              /\ c.isLast <=> (k = reqs[c.requestID].chunks)
    /\ \A id \in Ids :
          /\ reqs[id].kind = "sendFile" => Len(chunksSent) = reqs[id].sent
          /\ reqs[id].outcome = "hash" =>
                /\ reqs[id].sent = reqs[id].chunks
                /\ chunksSent[Len(chunksSent)].isLast
          /\ reqs[id].outcome = "ConnectionLost" /\ reqs[id].sent < reqs[id].chunks
                => id \notin inbound /\ id \notin responded

\* The connection was lost after a first chunk that was not the last.
C18_Witness ==
    /\ connState = "disconnected"
    /\ Len(chunksSent) = 1
    /\ ~chunksSent[1].isLast
    /\ \E id \in Ids :
          /\ reqs[id].kind = "sendFile"
          /\ reqs[id].outcome = "ConnectionLost"

=============================================================================
